---- MODULE Spec2Model ----
(***************************************************************************)
(* ChannelDashboard: the filter engine of the dashboard page, the goal     *)
(* suggestion of the goals page and the report composer of the report     *)
(* page, over the rows of the spreadsheet-backed store.                    *)
(*                                                                         *)
(* Time is counted in seconds from 2024-01-01T00:00:00Z.  A stored publish *)
(* timestamp is the ISO-8601 string the provider returned; it is kept as   *)
(* the pair <<date part, time-of-day part>> of that fixed-width string, so *)
(* that comparing the strings (what sort_values does on the column) and    *)
(* parsing them (what pd.to_datetime does) are two different operations.   *)
(***************************************************************************)
EXTENDS Integers, Sequences, FiniteSets, TLC

VARIABLES
    videos,           \* rows of the video sheet, in sheet order
    goalsSheet,       \* data rows of the goals sheet, in sheet order
    daily,            \* rows of the daily sheet, in sheet order
    now,              \* the current instant (UTC seconds)
    tzOffset,         \* UTC offset of the host's local clock (seconds)
    tieOrder,         \* how this build's default sort kind places equal keys
    filter_settings,  \* st.session_state.filter_settings, None before the page ran
    filtered,         \* what _apply_filters returned in the last dashboard run (<<>> before)
    display_data,     \* the performance table of the last dashboard run (<<>> before)
    suggestion,       \* what _generate_ai_suggestions returned last
    report,           \* outcome of the last report generation
    channel_stats,    \* st.session_state.channel_stats (None before a fetch)
    session_recent_videos,  \* st.session_state.recent_videos (<<>> while None or empty)
    fetch_result,     \* which fetch button the last run handled and whether it succeeded
    save_result,      \* what the last run of the save handler did and reported
    goals_page        \* what the last run of the goal-settings tab read and saved

\* The data page's session values and the outputs of the data and goals pages.
pageVars == <<channel_stats, session_recent_videos, fetch_result, save_result, goals_page>>

vars == <<videos, goalsSheet, daily, now, tzOffset, tieOrder, filter_settings,
          filtered, display_data, suggestion, report, pageVars>>

\* Python's None, and the value a result variable holds before its page ran.
None == [none |-> TRUE]
NotRun == [notrun |-> TRUE]

\* The data page has fetched nothing and neither page has run.
PagesIdle ==
    /\ channel_stats = None
    /\ session_recent_videos = <<>>
    /\ fetch_result = NotRun
    /\ save_result = NotRun
    /\ goals_page = NotRun

(***************************************************************************)
(* Bounds of the model.                                                    *)
(***************************************************************************)
MaxVideos == 2

(***************************************************************************)
(* Clock and calendar.                                                     *)
(***************************************************************************)
Day == 86400
Hour == 3600

\* datetime.now(): the naive local wall-clock reading.
LocalNow == now + tzOffset

\* .date() of a naive reading, as a day number.
DateOf(t) == t \div Day

\* pd.to_datetime of a stored ISO string <<date, time of day>> (UTC, tz-aware).
ToDatetime(p) == p[1] * Day + p[2]

\* Python's < on two ISO strings of the same fixed-width format.
StrLess(p, q) == p[1] < q[1] \/ (p[1] = q[1] /\ p[2] < q[2])

(***************************************************************************)
(* Titles and search texts are sequences of one-character strings.         *)
(***************************************************************************)
Lower(c) == CASE c = "A" -> "a" [] c = "B" -> "b" [] c = "X" -> "x" [] OTHER -> c

\* str.strip() of the search box's text.
RECURSIVE LStrip(_)
LStrip(s) == IF s # <<>> /\ Head(s) = " " THEN LStrip(Tail(s)) ELSE s

RECURSIVE RStrip(_)
RStrip(s) ==
    IF s # <<>> /\ s[Len(s)] = " " THEN RStrip(SubSeq(s, 1, Len(s) - 1)) ELSE s

Strip(s) == RStrip(LStrip(s))

\* One pattern character against one title character under re.IGNORECASE:
\* "." is the regular-expression wildcard, every other character of the
\* model's alphabet stands for itself.
ReCharMatches(pc, c) == pc = "." \/ Lower(pc) = Lower(c)

\* Series.str.contains(pat, case=False): pat is searched as a regular
\* expression (regex=True is the default).
StrContains(title, pat) ==
    \E pos \in 1..(Len(title) - Len(pat) + 1) :
        \A k \in 1..Len(pat) : ReCharMatches(pat[k], title[pos + k - 1])

(***************************************************************************)
(* Dashboard._apply_filters                                                *)
(***************************************************************************)
Periods == {"All", "Last7Days", "Last30Days", "Last90Days", "Custom"}
SortKeys == {"PublishDateDesc", "PublishDateAsc", "ViewsDesc", "ViewsAsc", "LikesDesc"}

PeriodDays(period) ==
    CASE period = "Last7Days" -> 7
      [] period = "Last30Days" -> 30
      [] period = "Last90Days" -> 90

\* cutoff_date = datetime.now() - timedelta(days=N), then tz_localize('UTC'):
\* the local reading is relabelled as UTC, not converted.
CutoffDate(days) == LocalNow - days * Day

PeriodKeepsEndExclusive(row, settings) ==
    LET dt == ToDatetime(row.published_at) IN
    CASE settings.period \in {"Last7Days", "Last30Days", "Last90Days"} ->
            dt >= CutoffDate(PeriodDays(settings.period))
      [] settings.period = "Custom" ->
            IF "start_date" \in DOMAIN settings /\ "end_date" \in DOMAIN settings
            THEN /\ dt >= settings.start_date * Day
                 /\ dt < settings.end_date * Day
            ELSE TRUE
      [] OTHER -> TRUE

PeriodKeeps(row, settings) ==
    LET dt == ToDatetime(row.published_at) IN
    CASE settings.period \in {"Last7Days", "Last30Days", "Last90Days"} ->
            dt >= CutoffDate(PeriodDays(settings.period))
      [] settings.period = "Custom" ->
            IF "start_date" \in DOMAIN settings /\ "end_date" \in DOMAIN settings
            THEN /\ dt >= settings.start_date * Day
                 /\ dt < settings.end_date * Day + Day
            ELSE TRUE
      [] OTHER -> TRUE

PeriodFilter(rows, settings) ==
    SelectSeq(rows, LAMBDA r : PeriodKeeps(r, settings))

SearchKeeps(row, search) == StrContains(row.title, Strip(search))

SearchFilter(rows, settings) ==
    IF settings.search # <<>> /\ Strip(settings.search) # <<>>
    THEN SelectSeq(rows, LAMBDA r : SearchKeeps(r, settings.search))
    ELSE rows

\* The order of two rows' values in a column ("published_dt" is the publish
\* column after pd.to_datetime).
ColLess(col, a, b) ==
    CASE col = "published_at" -> StrLess(a.published_at, b.published_at)
      [] col = "published_dt" -> ToDatetime(a.published_at) < ToDatetime(b.published_at)
      [] col = "views" -> a.views < b.views
      [] col = "likes" -> a.likes < b.likes

\* Rows in key order; rows with equal keys in sheet order (ties = "kept") or in
\* the opposite order (ties = "reversed").
SortRows(rows, col, ascending, ties) ==
    LET n == Len(rows)
        Before(i, j) == IF ascending THEN ColLess(col, rows[i], rows[j])
                                     ELSE ColLess(col, rows[j], rows[i])
        Tie(i, j) == ~Before(i, j) /\ ~Before(j, i)
        TieBefore(i, j) == Tie(i, j) /\ (IF ties = "kept" THEN i < j ELSE i > j)
        Rank(i) == 1 + Cardinality({j \in 1..n : Before(j, i) \/ TieBefore(j, i)})
    IN  [k \in 1..n |-> rows[CHOOSE i \in 1..n : Rank(i) = k]]

\* sort_values(col, ascending) with the default kind ('quicksort', not stable):
\* rows with equal keys come out as the build places them.
SortValues(rows, col, ascending) == SortRows(rows, col, ascending, tieOrder)

SortStepAscendingOnly(rows, settings) ==
    CASE settings.sort \in {"PublishDateDesc", "PublishDateAsc"} ->
            SortValues(rows, "published_at", TRUE)
      [] settings.sort \in {"ViewsDesc", "ViewsAsc"} -> SortValues(rows, "views", TRUE)
      [] settings.sort = "LikesDesc" -> SortValues(rows, "likes", TRUE)
      [] OTHER -> rows

SortStep(rows, settings) ==
    CASE settings.sort = "PublishDateDesc" -> SortValues(rows, "published_at", FALSE)
      [] settings.sort = "PublishDateAsc" -> SortValues(rows, "published_at", TRUE)
      [] settings.sort = "ViewsDesc" -> SortValues(rows, "views", FALSE)
      [] settings.sort = "ViewsAsc" -> SortValues(rows, "views", TRUE)
      [] settings.sort = "LikesDesc" -> SortValues(rows, "likes", FALSE)
      [] OTHER -> rows

ApplyFilters(video_data, settings) ==
    IF video_data = <<>> THEN video_data
    ELSE IF settings = None THEN video_data
    ELSE SortStep(SearchFilter(PeriodFilter(video_data, settings), settings), settings)

(***************************************************************************)
(* Dashboard._show_video_performance: the like-rate column.  A rate is     *)
(* kept in hundredths of a percent (the column is rounded to 2 decimals).  *)
(***************************************************************************)
\* round(a / b) to the nearest integer, halves to even (numpy's round).
RoundDiv(a, b) ==
    LET q == a \div b
        r == a % b
    IN  IF 2 * r < b THEN q
        ELSE IF 2 * r > b THEN q + 1
        ELSE IF q % 2 = 0 THEN q ELSE q + 1

\* A cell of a numeric column: a number, or pandas' NaN.
Num(n) == [num |-> n]
NaN == [nan |-> TRUE]

LikeRateCell(row) ==
    IF row.views > 0 THEN Num(RoundDiv(row.likes * 10000, row.views)) ELSE Num(0)

ShowVideoPerformance(rows) ==
    [k \in 1..Len(rows) |-> [row |-> rows[k], like_rate |-> LikeRateCell(rows[k])]]

(***************************************************************************)
(* The dashboard page.  Every interaction with a widget reruns show().     *)
(***************************************************************************)
Video(id, title, d, s, v, l) ==
    [video_id |-> id, title |-> title, published_at |-> <<d, s>>, views |-> v, likes |-> l]

\* The instant of the model's runs: 2024-04-10T12:00:00Z.
Now0 == 100 * Day + 12 * Hour

\* Host time zones: UTC and JST.
TzOffsets == {0, 9 * Hour}

\* Rows the video sheet may hold when the dashboard is opened.
FilterCatalog ==
    { Video("v1", <<"a", "b">>, 93, 15 * Hour, 10, 1),
      Video("v2", <<"A", "X", "B">>, 93, 15 * Hour, 10, 2),
      Video("v3", <<"b">>, 10, Day - 1, 0, 0),
      Video("v4", <<"a", ".", "b">>, 11, 0, 20, 5) }

\* Texts typed into the search box.
SearchTexts == { <<>>, <<" ">>, <<"a", ".", "b">>, <<" ", "A", "B", " ">> }

\* Dates picked in the two date inputs.
PickedDates == {10}

SeqsUpTo(S, n) == UNION {[1..k -> S] : k \in 0..n}

DefaultSettings == [period |-> "All", search |-> <<>>, sort |-> "PublishDateDesc"]

\* The frame handed to _apply_filters, as it is when the call ends: the
\* function works on filtered = video_data.copy().
FilterInputAfter(video_data, settings) == video_data

\* Dashboard.show with the widgets' values: early return when both sheets are
\* empty, else _show_filters stores the settings and the sections render.
DashboardShow(settings) ==
    /\ IF daily = <<>> /\ videos = <<>>
       THEN UNCHANGED <<filter_settings, filtered, display_data>>
       ELSE /\ filter_settings' = settings
            /\ filtered' = ApplyFilters(videos, settings)
            /\ display_data' = ShowVideoPerformance(ApplyFilters(videos, settings))
    /\ UNCHANGED <<videos, goalsSheet, daily, now, tzOffset, tieOrder, suggestion, report>>
    /\ UNCHANGED pageVars

\* The widgets' current values (their defaults before the first run).
Widgets == IF filter_settings = None THEN DefaultSettings ELSE filter_settings

OpenDashboard == DashboardShow(Widgets)

\* The two date inputs exist only while the period is Custom; they start at
\* today's date.
SelectPeriod(p) ==
    /\ filter_settings # None
    /\ DashboardShow(
         IF p = "Custom"
         THEN [period |-> p, search |-> Widgets.search, sort |-> Widgets.sort,
               start_date |-> DateOf(LocalNow), end_date |-> DateOf(LocalNow)]
         ELSE [period |-> p, search |-> Widgets.search, sort |-> Widgets.sort])

SetStartDate(d) ==
    /\ filter_settings # None
    /\ filter_settings.period = "Custom"
    /\ DashboardShow([filter_settings EXCEPT !.start_date = d])

SetEndDate(d) ==
    /\ filter_settings # None
    /\ filter_settings.period = "Custom"
    /\ DashboardShow([filter_settings EXCEPT !.end_date = d])

SetSearch(q) ==
    /\ filter_settings # None
    /\ DashboardShow([filter_settings EXCEPT !.search = q])

SetSort(s) ==
    /\ filter_settings # None
    /\ DashboardShow([filter_settings EXCEPT !.sort = s])

DailyRow == [date |-> 97, views |-> 0]

InitFilter ==
    /\ videos \in SeqsUpTo(FilterCatalog, MaxVideos)
    /\ daily \in {<<>>, <<DailyRow>>}
    /\ goalsSheet = <<>>
    /\ now = Now0
    /\ tzOffset \in TzOffsets
    /\ tieOrder \in {"kept", "reversed"}
    /\ filter_settings = None
    /\ filtered = <<>>
    /\ display_data = <<>>
    /\ suggestion = NotRun
    /\ report = NotRun
    /\ PagesIdle

NextFilter ==
    \/ OpenDashboard
    \/ \E p \in Periods : SelectPeriod(p)
    \/ \E d \in PickedDates : SetStartDate(d)
    \/ \E d \in PickedDates : SetEndDate(d)
    \/ \E q \in SearchTexts : SetSearch(q)
    \/ \E s \in SortKeys : SetSort(s)

SpecFilter == InitFilter /\ [][NextFilter]_vars

(***************************************************************************)
(* Properties of the filter engine, checked under SpecFilter.              *)
(***************************************************************************)
Count(seq, r) == Cardinality({i \in DOMAIN seq : seq[i] = r})

Rows(seq) == {seq[i] : i \in DOMAIN seq}

\* The dashboard rendered its sections from the current widget values.
FilterRan == filter_settings # None

SearchIsNoOp == Strip(filter_settings.search) = <<>>

\* C1: with period All, empty search text and sort PublishDateDesc the filter
\* returns every stored record exactly once, in descending publish time.
C1_AllNewestFirst ==
    (FilterRan /\ filter_settings.period = "All" /\ filter_settings.search = <<>>
        /\ filter_settings.sort = "PublishDateDesc")
    => /\ Len(filtered) = Len(videos)
       /\ \A r \in Rows(videos) : Count(filtered, r) = Count(videos, r)
       /\ \A i, j \in DOMAIN filtered :
             i < j => ToDatetime(filtered[i].published_at)
                        >= ToDatetime(filtered[j].published_at)

\* C1 witness: two stored records came out in an order other than the sheet's.
C1_Witness ==
    /\ FilterRan /\ filter_settings.period = "All" /\ filter_settings.search = <<>>
    /\ filter_settings.sort = "PublishDateDesc"
    /\ Len(filtered) = 2
    /\ filtered # videos
    /\ ToDatetime(filtered[1].published_at) > ToDatetime(filtered[2].published_at)

\* C2: filtering the filter's own output again, with the same settings and the
\* same clock reading, returns that output unchanged, in the same order.
C2_FilterIdempotent ==
    FilterRan => ApplyFilters(filtered, filter_settings) = filtered

\* C3: a Custom(start, end) period keeps exactly the records published in
\* [start 00:00:00, end + 1 day 00:00:00).
InCustomWindow(r) ==
    /\ ToDatetime(r.published_at) >= filter_settings.start_date * Day
    /\ ToDatetime(r.published_at) < (filter_settings.end_date + 1) * Day

C3_CustomWindow ==
    (FilterRan /\ filter_settings.period = "Custom" /\ SearchIsNoOp)
    => \A r \in Rows(videos) :
          Count(filtered, r) = IF InCustomWindow(r) THEN Count(videos, r) ELSE 0

\* C3 witness: of two stored records, the one published at 23:59:59 of the end
\* date was kept and the one published at 00:00:00 of the next day was dropped.
C3_Witness ==
    /\ FilterRan /\ filter_settings.period = "Custom" /\ SearchIsNoOp
    /\ \E r \in Rows(filtered) :
          r.published_at = <<filter_settings.end_date, Day - 1>>
    /\ \E r \in Rows(videos) :
          /\ r.published_at = <<filter_settings.end_date + 1, 0>>
          /\ r \notin Rows(filtered)

\* The title holds the text as a literal substring, letter case ignored.
LiteralContains(title, text) ==
    \E pos \in 1..(Len(title) - Len(text) + 1) :
        \A k \in 1..Len(text) : Lower(text[k]) = Lower(title[pos + k - 1])

\* C4: the search filter keeps a record exactly when its title holds the
\* (trimmed) search text as a case-insensitive literal substring; an empty or
\* whitespace-only text keeps every record.
C4_SearchLiteralSubstring ==
    (FilterRan /\ filter_settings.period = "All")
    => \A r \in Rows(videos) :
          (r \in Rows(filtered))
            <=> (SearchIsNoOp \/ LiteralContains(r.title, Strip(filter_settings.search)))

\* C5: the like-rate shown for a record is the not-computable value exactly
\* when its views are 0, and likes / views * 100 (to the column's two decimals)
\* when its views are positive.
C5_LikeRateUndefinedIffNoViews ==
    \A k \in DOMAIN display_data :
        LET row == display_data[k].row
            cell == display_data[k].like_rate
        IN  /\ (cell = NaN) <=> (row.views = 0)
            /\ row.views > 0 => cell = Num(RoundDiv(row.likes * 10000, row.views))

(***************************************************************************)
(* Goals._generate_ai_suggestions.  The float products of the source are   *)
(* given by their exact integer values, which they equal for view counts   *)
(* up to 40 and up to 8 rows in the window, except where FloatShortfall    *)
(* lists the product as falling just below the exact integer.              *)
(***************************************************************************)
RECURSIVE SumViews(_)
SumViews(rows) == IF rows = <<>> THEN 0 ELSE Head(rows).views + SumViews(Tail(rows))

MaxViews(rows) ==
    CHOOSE m \in {rows[i].views : i \in DOMAIN rows} :
        \A i \in DOMAIN rows : rows[i].views <= m

\* recent_videos: rows published at or after datetime.now() - 30 days, the
\* local reading given the column's time zone by replace(tzinfo=...).
RecentVideos(video_df) ==
    SelectSeq(video_df, LAMBDA r : ToDatetime(r.published_at) >= CutoffDate(30))

\* avg_views = int(mean of the views column)
AvgViewsExactMean(rows) == [num |-> SumViews(rows), den |-> Len(rows)]

AvgViews(rows) == SumViews(rows) \div Len(rows)

\* recommended_24h = int(avg_views * 1.2)
Recommended24h(rows) == (AvgViews(rows) * 6) \div 5

\* DataFrame.nlargest(n, date) / nsmallest(n, date), keep='first'.
NLargestByDate(rows, n) ==
    LET dt(i) == ToDatetime(rows[i].published_at)
        Rank(i) == 1 + Cardinality({j \in DOMAIN rows :
                         dt(j) > dt(i) \/ (dt(j) = dt(i) /\ j < i)})
    IN  SelectSeq([i \in DOMAIN rows |-> [row |-> rows[i], rank |-> Rank(i)]],
                  LAMBDA x : x.rank <= n)

\* A selection that takes one row fewer.
NSmallestByDateShort(rows, n) ==
    LET dt(i) == ToDatetime(rows[i].published_at)
        Rank(i) == 1 + Cardinality({j \in DOMAIN rows :
                         dt(j) < dt(i) \/ (dt(j) = dt(i) /\ j < i)})
    IN  SelectSeq([i \in DOMAIN rows |-> [row |-> rows[i], rank |-> Rank(i)]],
                  LAMBDA x : x.rank <= n - 1)

NSmallestByDate(rows, n) ==
    LET dt(i) == ToDatetime(rows[i].published_at)
        Rank(i) == 1 + Cardinality({j \in DOMAIN rows :
                         dt(j) < dt(i) \/ (dt(j) = dt(i) /\ j < i)})
    IN  SelectSeq([i \in DOMAIN rows |-> [row |-> rows[i], rank |-> Rank(i)]],
                  LAMBDA x : x.rank <= n)

RECURSIVE SumRanked(_)
SumRanked(xs) == IF xs = <<>> THEN 0 ELSE Head(xs).row.views + SumRanked(Tail(xs))

\* A trend whose thresholds include the boundary values.
TrendInclusive(rows) ==
    IF Len(rows) >= 5
    THEN LET recent_5 == SumRanked(NLargestByDate(rows, 5))
             older_5 == SumRanked(NSmallestByDate(rows, 5))
         IN  IF 10 * recent_5 >= 11 * older_5 THEN "rising"
             ELSE IF 10 * recent_5 <= 9 * older_5 THEN "falling"
             ELSE "stable"
    ELSE "few"

\* The trend of the window: recent_5 against older_5 (both means of 5 rows).
Trend(rows) ==
    IF Len(rows) >= 5
    THEN LET recent_5 == SumRanked(NLargestByDate(rows, 5))
             older_5 == SumRanked(NSmallestByDate(rows, 5))
         IN  IF 10 * recent_5 > 11 * older_5 THEN "rising"
             ELSE IF 10 * recent_5 < 9 * older_5 THEN "falling"
             ELSE "stable"
    ELSE "few"

\* <<max_views, rows>> for which max_views * (rows / 30) * 15 evaluates just
\* below its exact value.
FloatShortfall ==
    { <<31, 2>>, <<31, 4>>, <<10, 5>>, <<14, 5>>, <<20, 5>>, <<28, 5>>, <<34, 5>>,
      <<40, 5>>, <<31, 8>> }

GenerateAiSuggestions(video_df) ==
    IF video_df = <<>> THEN None
    ELSE LET recent_videos == RecentVideos(video_df) IN
         IF recent_videos = <<>> THEN None
         ELSE LET n == Len(recent_videos)
                  avg_views == AvgViews(recent_videos)
                  max_views == MaxViews(recent_videos)
                  avg_daily_views == (avg_views * n) \div 3
                  max_daily_exact == (max_views * n) \div 2
              IN  [avg_24h_views |-> avg_views,
                   max_24h_views |-> max_views,
                   recommended_24h_views |-> Recommended24h(recent_videos),
                   analysis_24h |-> Trend(recent_videos),
                   avg_daily_views |-> avg_daily_views,
                   max_daily_views |-> IF <<max_views, n>> \in FloatShortfall
                                       THEN max_daily_exact - 1 ELSE max_daily_exact,
                   recommended_daily_views |-> (avg_daily_views * 23) \div 20,
                   analysis_daily |-> Trend(recent_videos)]

\* The "generate" button of the suggestion tab.
ShowAiSuggestions ==
    /\ suggestion' = GenerateAiSuggestions(videos)
    /\ UNCHANGED <<videos, goalsSheet, daily, now, tzOffset, tieOrder,
                   filter_settings, filtered, display_data, report>>
    /\ UNCHANGED pageVars

\* Rows the video sheet may hold when the goals page is opened.
GoalsCatalog ==
    { Video("g1", <<"a">>, 93, 15 * Hour, 2, 1),
      Video("g2", <<"b">>, 95, 0, 3, 0),
      Video("g3", <<"a", "b">>, 70, 15 * Hour, 10, 1),
      Video("g4", <<"b", "a">>, 10, 0, 20, 2) }

\* The clock moves on between two interactions.
Tick ==
    /\ now < Now0 + 6 * Hour
    /\ now' = now + 6 * Hour
    /\ UNCHANGED <<videos, goalsSheet, daily, tzOffset, tieOrder, filter_settings,
                   filtered, display_data, suggestion, report>>
    /\ UNCHANGED pageVars

InitGoals ==
    /\ videos \in SeqsUpTo(GoalsCatalog, MaxVideos)
    /\ daily = <<>>
    /\ goalsSheet = <<>>
    /\ now = Now0
    /\ tzOffset \in TzOffsets
    /\ tieOrder \in {"kept", "reversed"}
    /\ filter_settings = None
    /\ filtered = <<>>
    /\ display_data = <<>>
    /\ suggestion = NotRun
    /\ report = NotRun
    /\ PagesIdle

NextGoals == ShowAiSuggestions

SpecGoals == InitGoals /\ [][NextGoals]_vars

(***************************************************************************)
(* Properties of the goal suggestion, checked under SpecGoals.             *)
(***************************************************************************)
\* The stored records of the trailing 30 days, by the publish instants.
TrailingWindow == SelectSeq(videos, LAMBDA r : ToDatetime(r.published_at) >= now - 30 * Day)

\* C6: the suggestion is the no-data outcome exactly when no stored record has
\* publishedAt >= now - 30 days, and suggested goals whenever one has.
C6_NoDataIffWindowEmpty ==
    suggestion # NotRun => ((suggestion = None) <=> (TrailingWindow = <<>>))

\* C7: for a non-empty window the suggested 24-hour goal is
\* floor(mean(views) * 1.2), the mean being the exact arithmetic mean.
C7_RecommendedFromExactMean ==
    (suggestion # NotRun /\ suggestion # None)
    => LET mean == AvgViewsExactMean(RecentVideos(videos))
       IN  suggestion.recommended_24h_views = (mean.num * 6) \div (mean.den * 5)

(***************************************************************************)
(* ReportGenerator._generate_report.  A report is a sequence of lines; a   *)
(* line is a tuple of the line's fixed wording and the values formatted    *)
(* into it.  Percentages are kept in tenths of a percent.                  *)
(***************************************************************************)
\* A views cell of the sheet whose text is not a number.
NonNumeric == -1

IsNumeric(cell) == cell # NonNumeric

\* dict.get(key, default)
Get(d, key, default) == IF key \in DOMAIN d THEN d[key] ELSE default

\* First day of each month of 2024, counted from January 1st = 0.
MonthStart == <<0, 31, 60, 91, 121, 152, 182, 213, 244, 274, 305, 335, 366>>

\* .month and .day of a date given as a day number.
MonthOf(d) == CHOOSE m \in 1..12 : MonthStart[m] <= d /\ d < MonthStart[m + 1]

DayOfMonth(d) == d - MonthStart[MonthOf(d)] + 1

L(text) == <<text>>

\* A cell of a sheet holding a number reads back as its decimal text.
DigitChars == <<"0", "1", "2", "3", "4", "5", "6", "7", "8", "9">>

RECURSIVE FormatInt(_)
FormatInt(n) ==
    IF n < 10 THEN <<DigitChars[n + 1]>>
    ELSE FormatInt(n \div 10) \o <<DigitChars[(n % 10) + 1]>>

IsDigits(text) ==
    text # <<>> /\ \A i \in DOMAIN text : \E d \in DOMAIN DigitChars : DigitChars[d] = text[i]

RECURSIVE ParseDigits(_)
ParseDigits(text) ==
    IF text = <<>> THEN 0
    ELSE ParseDigits(SubSeq(text, 1, Len(text) - 1)) * 10
         + (CHOOSE d \in 0..9 : DigitChars[d + 1] = text[Len(text)])

\* pd.to_numeric(col, errors='coerce').fillna(0).astype(int) on one cell.
ToNumericOrZero(text) == IF IsDigits(text) THEN ParseDigits(text) ELSE 0

\* SheetsHandler.get_goals: the goals sheet as a frame, an empty frame when
\* the sheet has no data row or the read fails.
GetGoals(read_ok) ==
    IF read_ok
    THEN [i \in DOMAIN goalsSheet |->
            [set_at |-> goalsSheet[i].set_at,
             goal_24h_views |-> ToNumericOrZero(goalsSheet[i].goal_24h_views),
             goal_daily_views |-> ToNumericOrZero(goalsSheet[i].goal_daily_views),
             goal_monthly_revenue |-> ToNumericOrZero(goalsSheet[i].goal_monthly_revenue),
             goal_daily_revenue |-> ToNumericOrZero(goalsSheet[i].goal_daily_revenue)]]
    ELSE <<>>

\* A reader that takes the oldest row of the frame.
GetCurrentGoalsFirstRow(read_ok) ==
    LET goals_df == GetGoals(read_ok) IN
    IF goals_df = <<>> THEN <<>>
    ELSE LET latest_goal == goals_df[1]
         IN  [goal_24h_views |-> latest_goal.goal_24h_views,
              goal_daily_views |-> latest_goal.goal_daily_views,
              goal_monthly_revenue |-> latest_goal.goal_monthly_revenue,
              goal_daily_revenue |-> latest_goal.goal_daily_revenue]

\* Goals._get_current_goals: the last row of the frame, {} for an empty frame.
GetCurrentGoals(read_ok) ==
    LET goals_df == GetGoals(read_ok) IN
    IF goals_df = <<>> THEN <<>>
    ELSE LET latest_goal == goals_df[Len(goals_df)]
         IN  [goal_24h_views |-> latest_goal.goal_24h_views,
              goal_daily_views |-> latest_goal.goal_daily_views,
              goal_monthly_revenue |-> latest_goal.goal_monthly_revenue,
              goal_daily_revenue |-> latest_goal.goal_daily_revenue]

\* A part of the report: its lines, or the exception that ended the call.
Lines(ls) == [raised |-> FALSE, lines |-> ls]
Raised == [raised |-> TRUE, lines |-> <<>>]

\* A choice that ignores the selection.
ReportedVideoLatestOnly(settings, video_data) ==
    IF video_data # <<>> THEN SortValues(video_data, "published_dt", FALSE)[1]
    ELSE None

\* The video the new-video section reports: the selected one, else the first
\* row of the sheet sorted by publish time, newest first.
ReportedVideo(settings, video_data) ==
    IF settings.selected_video # None THEN settings.selected_video
    ELSE IF video_data # <<>> THEN SortValues(video_data, "published_dt", FALSE)[1]
    ELSE None

\* A verdict that asks for more than the goal.
AchievementStrict(actual, goal) == IF actual > goal THEN "Achieved" ELSE "NotAchieved"

\* achievement = "達成" if views >= goal else "未達"
Achievement(actual, goal) == IF actual >= goal THEN "Achieved" ELSE "NotAchieved"

ViewsLines(views, goal_24h) ==
    IF goal_24h > 0
    THEN << L("views_heading"), <<"views_goal_result", goal_24h, views, Achievement(views, goal_24h)>> >>
    ELSE << L("views_heading"), <<"views_result", views>> >>

LikeRateLines(manual_like_rate, like_rate_goal) ==
    IF manual_like_rate > 0
    THEN << L("like_rate_heading"),
            <<"like_rate_goal_result", RoundDiv(like_rate_goal, 10), manual_like_rate,
              Achievement(manual_like_rate, like_rate_goal)>> >>
    ELSE << L("like_rate_heading"), L("like_rate_enter_from_studio") >>

\* The publish time shown with the fixed +9 hours.
PubDateLine(video) ==
    IF video = None THEN L("published_unknown")
    ELSE LET jst == ToDatetime(video.published_at) + 9 * Hour
         IN  <<"published", MonthOf(DateOf(jst)), DayOfMonth(DateOf(jst)), (jst % Day) \div Hour>>

NewVideoSection(settings, video_data, current_goals) ==
    IF ~settings.include_new_video THEN Lines(<<>>)
    ELSE LET video == ReportedVideo(settings, video_data)
             views == IF video = None THEN 0 ELSE video.views
         IN  IF ~IsNumeric(views) THEN Raised
             ELSE Lines(
                    << L("new_video_heading"), PubDateLine(video) >>
                    \o ViewsLines(views, Get(current_goals, "goal_24h_views", 0))
                    \o << L("") >>
                    \o LikeRateLines(settings.manual_like_rate,
                                     Get(current_goals, "goal_like_rate", 900))
                    \o << L(""),
                          L("impression_ctr_heading"), L("needs_analytics_api"), L(""),
                          L("subscriber_views_heading"), L("needs_analytics_api"), L(""),
                          L("subscribers_24h_heading"), L("needs_analytics_api"), L(""),
                          L("") >>)

RevenueSection(settings, current_goals, today) ==
    IF ~settings.include_revenue THEN Lines(<<>>)
    ELSE LET date == IF settings.selected_revenue_date # None
                     THEN settings.selected_revenue_date.day
                     ELSE DateOf(today - Day)
             monthly_revenue_goal == Get(current_goals, "goal_monthly_revenue", 0)
         IN  Lines(
               << L("revenue_heading"),
                  <<"revenue_date", MonthOf(date), DayOfMonth(date)>>,
                  L("needs_analytics_api"), L(""),
                  IF monthly_revenue_goal > 0
                  THEN <<"month_total_with_goal", MonthOf(DateOf(today)), monthly_revenue_goal>>
                  ELSE <<"month_total", MonthOf(DateOf(today))>>,
                  L("needs_analytics_api"), L("") >>)

RECURSIVE SumLikes(_)
SumLikes(rows) == IF rows = <<>> THEN 0 ELSE Head(rows).likes + SumLikes(Tail(rows))

\* Summing a views column that holds a text cell raises.
ChannelStatsSection(settings, video_data) ==
    IF ~(settings.include_channel_stats /\ video_data # <<>>) THEN Lines(<<>>)
    ELSE IF \E i \in DOMAIN video_data : ~IsNumeric(video_data[i].views) THEN Raised
    ELSE Lines(<< L("channel_stats_heading"),
                  <<"total_views", SumViews(video_data)>>,
                  <<"total_likes", SumLikes(video_data)>>,
                  <<"video_count", Len(video_data)>>,
                  L("") >>)

TopN == 5

\* DataFrame.nlargest(n, views_num): the rows whose coerced views are numbers,
\* largest first; when fewer than n of them exist the NaN rows follow, in
\* sheet order.  With n >= len(frame) pandas sorts the whole column with the
\* default kind; otherwise it selects with a stable sort (keep='first').
NLargestByViews(video_data, n) ==
    LET numeric == SelectSeq(video_data, LAMBDA r : IsNumeric(r.views))
        nans == SelectSeq(video_data, LAMBDA r : ~IsNumeric(r.views))
        sorted == IF n >= Len(video_data)
                  THEN SortValues(numeric, "views", FALSE)
                  ELSE SortRows(numeric, "views", FALSE, "kept")
        all == sorted \o nans
    IN  SubSeq(all, 1, IF Len(all) < n THEN Len(all) ELSE n)

TopVideosSection(settings, video_data) ==
    IF ~(settings.include_top_videos /\ video_data # <<>>) THEN Lines(<<>>)
    ELSE LET top_videos == NLargestByViews(video_data, TopN) IN
         IF \E i \in DOMAIN top_videos : ~IsNumeric(top_videos[i].views) THEN Raised
         ELSE Lines(<< L("top5_heading") >>
                    \o [i \in DOMAIN top_videos |->
                          <<"rank", i, top_videos[i].title, top_videos[i].views>>]
                    \o << L("") >>)

\* A header that also states the time of day.
HeaderWithTime(today) == << <<"greeting_at", (today % Day) \div Hour>>, L("") >>

\* The opening lines of the report.
Header(today) == << L("greeting"), L("") >>

\* A composition that puts the revenue section after the top videos.
ComposeReportRevenueLast(settings, video_data, current_goals, today) ==
    LET parts == << Lines(Header(today)),
                    NewVideoSection(settings, video_data, current_goals),
                    RevenueSection(settings, current_goals, today),
                    ChannelStatsSection(settings, video_data),
                    TopVideosSection(settings, video_data) >>
    IN  IF \E i \in DOMAIN parts : parts[i].raised THEN Raised
        ELSE Lines(parts[1].lines \o parts[2].lines \o parts[4].lines
                   \o parts[5].lines \o parts[3].lines)

\* The body of _generate_report after its reads; today is datetime.now().
ComposeReport(settings, video_data, current_goals, today) ==
    LET parts == << Lines(Header(today)),
                    NewVideoSection(settings, video_data, current_goals),
                    RevenueSection(settings, current_goals, today),
                    ChannelStatsSection(settings, video_data),
                    TopVideosSection(settings, video_data) >>
    IN  IF \E i \in DOMAIN parts : parts[i].raised THEN Raised
        ELSE Lines(parts[1].lines \o parts[2].lines \o parts[3].lines
                   \o parts[4].lines \o parts[5].lines)

\* The frame _generate_report read, as it is when the call ends: reaching the
\* top-videos section assigns the column of coerced views to it.
VideoDataAfter(settings, video_data, current_goals) ==
    IF /\ settings.include_top_videos
       /\ video_data # <<>>
       /\ ~NewVideoSection(settings, video_data, current_goals).raised
       /\ ~ChannelStatsSection(settings, video_data).raised
    THEN [i \in DOMAIN video_data |->
            video_data[i] @@ [views_num |-> IF IsNumeric(video_data[i].views)
                                            THEN Num(video_data[i].views) ELSE NaN]]
    ELSE video_data

\* _generate_report: the reads, then the text.  A failed video read returns
\* the error text; a failed goals read leaves current_goals empty.
GenerateReportResult(settings, video_ok, goals_ok) ==
    IF ~video_ok
    THEN [kind |-> "error", lines |-> << L("info_open"), L("data_read_error"), L("info_close") >>,
          settings |-> settings, video_data |-> <<>>, current_goals |-> <<>>,
          video_data_after |-> <<>>,
          today |-> LocalNow]
    ELSE LET current_goals == GetCurrentGoals(goals_ok)
             composed == ComposeReport(settings, videos, current_goals, LocalNow)
         IN  [kind |-> IF composed.raised THEN "raised" ELSE "text",
              lines |-> composed.lines,
              settings |-> settings, video_data |-> videos, current_goals |-> current_goals,
              video_data_after |-> VideoDataAfter(settings, videos, current_goals),
              today |-> LocalNow]

\* The operator's 24-hour like-rate entries, in tenths of a percent.
ManualLikeRates == {0, 895, 900}

\* The rows the video selector offers (the selector shows each row's views
\* as a number).
SelectableVideos == {videos[i] : i \in {j \in DOMAIN videos : IsNumeric(videos[j].views)}}

\* The "generate report" button of the report page, with the values of the
\* page's widgets.
GenerateReport(settings, video_ok, goals_ok) ==
    /\ IF report = NotRun THEN TRUE ELSE report.settings = settings
    /\ report' = GenerateReportResult(settings, video_ok, goals_ok)
    /\ UNCHANGED <<videos, goalsSheet, daily, now, tzOffset, tieOrder,
                   filter_settings, filtered, display_data, suggestion>>
    /\ UNCHANGED pageVars

ReportSettings ==
    { [include_new_video |-> nv, include_revenue |-> rv, include_channel_stats |-> cs,
       include_top_videos |-> tv, manual_like_rate |-> m, selected_video |-> sv,
       selected_revenue_date |-> IF rv THEN [day |-> DateOf(LocalNow) - 2] ELSE None] :
      nv \in BOOLEAN, rv \in BOOLEAN, cs \in BOOLEAN, tv \in BOOLEAN,
      m \in ManualLikeRates, sv \in SelectableVideos \cup {None} }

PressGenerate ==
    \E settings \in ReportSettings, video_ok \in BOOLEAN, goals_ok \in BOOLEAN :
        /\ settings.selected_video # None => settings.include_new_video
        /\ GenerateReport(settings, video_ok, goals_ok)

\* Any other interaction with the page reruns it without the report.
ChangeWidget ==
    /\ report # NotRun
    /\ report' = NotRun
    /\ UNCHANGED <<videos, goalsSheet, daily, now, tzOffset, tieOrder,
                   filter_settings, filtered, display_data, suggestion>>
    /\ UNCHANGED pageVars

\* Rows the video sheet may hold when the report page is opened.
ReportCatalog ==
    { Video("r1", <<"a">>, 93, 15 * Hour, 10, 1),
      Video("r2", <<"b">>, 93, 15 * Hour, 3, 0),
      Video("r3", <<"a", "b">>, 95, 16 * Hour, NonNumeric, 2) }

Goal(g24, gmonth) ==
    [set_at |-> 1, goal_24h_views |-> FormatInt(g24), goal_daily_views |-> FormatInt(0),
     goal_monthly_revenue |-> FormatInt(gmonth), goal_daily_revenue |-> FormatInt(0)]

\* Contents of the goals sheet when the report page is opened.
GoalSheets == { <<>>, <<Goal(10, 7)>>, <<Goal(10, 7), Goal(0, 0)>> }

InitReport ==
    /\ videos \in SeqsUpTo(ReportCatalog, MaxVideos)
    /\ daily = <<>>
    /\ goalsSheet \in GoalSheets
    /\ now = Now0
    /\ tzOffset = 0      \* the report reads the clock only as local time
    /\ tieOrder \in {"kept", "reversed"}
    /\ filter_settings = None
    /\ filtered = <<>>
    /\ display_data = <<>>
    /\ suggestion = NotRun
    /\ report = NotRun
    /\ PagesIdle

NextReport ==
    \/ PressGenerate
    \/ ChangeWidget
    \/ Tick

SpecReport == InitReport /\ [][NextReport]_vars

(***************************************************************************)
(* The data page (main.py) and the goal-settings tab (goals.py), over the  *)
(* three sheets.  Each run of a page shows only that run's output, so the  *)
(* output of the other page is gone.  The sheets handler is connected.     *)
(***************************************************************************)
\* Longest sheet the runs of this part build.
MaxRows == 2

\* What get_channel_stats returns.
FetchedStats == [subscriber_count |-> 7, total_views |-> 9, video_count |-> 2]

\* One element of the list get_recent_videos returns.
FetchedVideo(id, title, d, s) == [video_id |-> id, title |-> title, published_at |-> <<d, s>>]

FetchCatalog ==
    { FetchedVideo("f1", <<"a">>, 98, Hour), FetchedVideo("f2", <<"b">>, 99, 2 * Hour) }

\* The "fetch channel data" button: the statistics are stored in the session
\* unless the fetch raises.
FetchChannelStats(fetch_ok) ==
    /\ channel_stats' = IF fetch_ok THEN FetchedStats ELSE channel_stats
    /\ fetch_result' = [button |-> "channel", ok |-> fetch_ok]
    /\ save_result' = NotRun
    /\ goals_page' = NotRun
    /\ UNCHANGED <<videos, goalsSheet, daily, now, tzOffset, tieOrder, filter_settings,
                   filtered, display_data, suggestion, report, session_recent_videos>>

\* A handler that stores what was fetched before the fetch raised.
FetchRecentVideosKeepsPartial(fetch_ok, fetched) ==
    /\ session_recent_videos' = fetched
    /\ fetch_result' = [button |-> "videos", ok |-> fetch_ok]
    /\ save_result' = NotRun
    /\ goals_page' = NotRun
    /\ UNCHANGED <<videos, goalsSheet, daily, now, tzOffset, tieOrder, filter_settings,
                   filtered, display_data, suggestion, report, channel_stats>>

\* The "fetch latest videos" button: fetched is the list get_recent_videos
\* built, returned when the fetch succeeds and lost when it raises.
FetchRecentVideos(fetch_ok, fetched) ==
    /\ session_recent_videos' = IF fetch_ok THEN fetched ELSE session_recent_videos
    /\ fetch_result' = [button |-> "videos", ok |-> fetch_ok]
    /\ save_result' = NotRun
    /\ goals_page' = NotRun
    /\ UNCHANGED <<videos, goalsSheet, daily, now, tzOffset, tieOrder, filter_settings,
                   filtered, display_data, suggestion, report, channel_stats>>

\* The daily_data the save handler builds from the session's statistics: the
\* date of three days ago and the statistics read under the handler's keys.
DailyData ==
    [date |-> DateOf(LocalNow - 3 * Day),
     subscribers |-> Get(channel_stats, "subscribers", 0),
     total_views |-> Get(channel_stats, "total_views", 0),
     video_count |-> Get(channel_stats, "video_count", 0),
     new_subscribers |-> 0]

\* The row save_daily_data appends: the cells it reads from data, each 0
\* when data has no such key (the cells that are always 0 are left out).
SaveDailyRow(data) ==
    [date |-> data.date,
     subscribers_gained |-> Get(data, "subscribers_gained", 0),
     views |-> Get(data, "views", 0)]

\* The row appended for the handler's daily_data.
DailyDataRow == SaveDailyRow(DailyData)

\* The row save_video_data appends for one fetched video: views and likes are
\* video.get('views', 0) and video.get('likes', 0).
VideoDataRow(video) ==
    Video(video.video_id, video.title, video.published_at[1], video.published_at[2], 0, 0)

\* The rows the loop appends: those of the videos whose save did not raise.
RECURSIVE SavedRows(_, _)
SavedRows(list, save_ok) ==
    IF list = <<>> THEN <<>>
    ELSE (IF Head(save_ok) THEN <<VideoDataRow(Head(list))>> ELSE <<>>)
         \o SavedRows(Tail(list), Tail(save_ok))

\* A save button that is always shown.
SaveToSheetsAlwaysShown(daily_ok, save_ok) ==
    /\ Len(daily) < MaxRows
    /\ Len(videos) + Len(session_recent_videos) <= MaxRows
    /\ LET save_daily == channel_stats # None
           aborted == save_daily /\ ~daily_ok
           n == Len(session_recent_videos)
           loop_runs == ~aborted /\ n > 0
           rows == IF loop_runs THEN SavedRows(session_recent_videos, save_ok) ELSE <<>>
       IN  /\ daily' = IF save_daily /\ daily_ok THEN Append(daily, DailyDataRow) ELSE daily
           /\ videos' = videos \o rows
           /\ save_result' = [daily |-> IF ~save_daily THEN "none"
                                        ELSE IF daily_ok THEN "saved" ELSE "failed",
                              aborted |-> aborted,
                              n |-> n,
                              attempted |-> IF loop_runs THEN n ELSE 0,
                              saved_count |-> Len(rows),
                              error_count |-> IF loop_runs THEN n - Len(rows) ELSE 0]
    /\ fetch_result' = NotRun
    /\ goals_page' = NotRun
    /\ UNCHANGED <<goalsSheet, now, tzOffset, tieOrder, filter_settings, filtered,
                   display_data, suggestion, report, channel_stats, session_recent_videos>>

\* The "save to Google Sheets" button.  A daily save that raises leaves the
\* try block: the video loop does not run.
SaveToSheets(daily_ok, save_ok) ==
    /\ channel_stats # None \/ session_recent_videos # <<>>
    /\ Len(daily) < MaxRows
    /\ Len(videos) + Len(session_recent_videos) <= MaxRows
    /\ LET save_daily == channel_stats # None
           aborted == save_daily /\ ~daily_ok
           n == Len(session_recent_videos)
           loop_runs == ~aborted /\ n > 0
           rows == IF loop_runs THEN SavedRows(session_recent_videos, save_ok) ELSE <<>>
       IN  /\ daily' = IF save_daily /\ daily_ok THEN Append(daily, DailyDataRow) ELSE daily
           /\ videos' = videos \o rows
           /\ save_result' = [daily |-> IF ~save_daily THEN "none"
                                        ELSE IF daily_ok THEN "saved" ELSE "failed",
                              aborted |-> aborted,
                              n |-> n,
                              attempted |-> IF loop_runs THEN n ELSE 0,
                              saved_count |-> Len(rows),
                              error_count |-> IF loop_runs THEN n - Len(rows) ELSE 0]
    /\ fetch_result' = NotRun
    /\ goals_page' = NotRun
    /\ UNCHANGED <<goalsSheet, now, tzOffset, tieOrder, filter_settings, filtered,
                   display_data, suggestion, report, channel_stats, session_recent_videos>>

\* Values entered in the goal form.
GoalInput(g24, gmonth) ==
    [goal_24h_views |-> g24, goal_daily_views |-> 0,
     goal_monthly_revenue |-> gmonth, goal_daily_revenue |-> 0]

GoalInputs == { GoalInput(5, 7), GoalInput(12, 0) }

\* The row Goals._save_goals hands to SheetsHandler.save_goals, as the sheet
\* then holds it.
GoalRow(goals_data) ==
    [set_at |-> LocalNow,
     goal_24h_views |-> FormatInt(goals_data.goal_24h_views),
     goal_daily_views |-> FormatInt(goals_data.goal_daily_views),
     goal_monthly_revenue |-> FormatInt(goals_data.goal_monthly_revenue),
     goal_daily_revenue |-> FormatInt(goals_data.goal_daily_revenue)]

\* A save that clears the sheet and writes the new values in its place.
SaveGoalsClearing(sheet, goals_data) == <<GoalRow(goals_data)>>

\* SheetsHandler.save_goals (the definition in force): append_row.
SaveGoals(sheet, goals_data) == Append(sheet, GoalRow(goals_data))

\* One run of the goal-settings tab: the current goals are read, and when the
\* form was submitted its values are appended to the goals sheet unless the
\* save raises.
ShowGoalSettings(read_ok, submitted, save_ok) ==
    /\ submitted # None => Len(goalsSheet) < MaxRows
    /\ submitted = None => save_ok
    /\ goalsSheet' = IF submitted # None /\ save_ok
                     THEN SaveGoals(goalsSheet, submitted) ELSE goalsSheet
    /\ goals_page' = [current_goals |-> GetCurrentGoals(read_ok),
                      read_ok |-> read_ok,
                      submitted |-> submitted,
                      success |-> submitted # None /\ save_ok]
    /\ fetch_result' = NotRun
    /\ save_result' = NotRun
    /\ UNCHANGED <<videos, daily, now, tzOffset, tieOrder, filter_settings, filtered,
                   display_data, suggestion, report, channel_stats, session_recent_videos>>

InitStore ==
    /\ videos = <<>>
    /\ daily = <<>>
    /\ goalsSheet \in {<<>>, <<Goal(10, 7)>>}
    /\ now = Now0
    /\ tzOffset = 9 * Hour   \* the date of the rows is the same day in either zone
    /\ tieOrder = "kept"
    /\ filter_settings = None
    /\ filtered = <<>>
    /\ display_data = <<>>
    /\ suggestion = NotRun
    /\ report = NotRun
    /\ PagesIdle

NextStore ==
    \/ \E fetch_ok \in BOOLEAN : FetchChannelStats(fetch_ok)
    \/ \E fetch_ok \in BOOLEAN, fetched \in SeqsUpTo(FetchCatalog, MaxVideos) :
          FetchRecentVideos(fetch_ok, fetched)
    \/ \E daily_ok \in BOOLEAN, save_ok \in [1..Len(session_recent_videos) -> BOOLEAN] :
          SaveToSheets(daily_ok, save_ok)
    \/ \E read_ok \in BOOLEAN, submitted \in GoalInputs \cup {None}, save_ok \in BOOLEAN :
          ShowGoalSettings(read_ok, submitted, save_ok)

SpecStore == InitStore /\ [][NextStore]_vars

(***************************************************************************)
(* Properties of the report.                                               *)
(***************************************************************************)
ReportIsText == report # NotRun /\ report.kind = "text"

\* C8: two generations with the same settings, the same record collection and
\* goals as read, on the same calendar date, return the same text.
C8_SameInputsSameReport ==
    [][ (/\ ReportIsText
         /\ report' # NotRun
         /\ report'.kind = "text"
         /\ report'.settings = report.settings
         /\ report'.video_data = report.video_data
         /\ report'.current_goals = report.current_goals
         /\ DateOf(report'.today) = DateOf(report.today))
        => report'.lines = report.lines ]_vars

\* A report stands that was generated earlier on the same date, and the same
\* settings over the same data can be generated again now.
C8_Witness ==
    /\ ReportIsText
    /\ report.settings.include_new_video
    /\ report.settings.include_revenue
    /\ report.video_data # <<>>
    /\ report.today # LocalNow
    /\ DateOf(report.today) = DateOf(LocalNow)
    /\ GenerateReportResult(report.settings, TRUE, TRUE).kind = "text"
    /\ GenerateReportResult(report.settings, TRUE, TRUE).current_goals = report.current_goals

\* The views the new-video section may report: the selected video's, else
\* those of a record with the latest publish time, else 0.
ReportedViews ==
    IF report.settings.selected_video # None THEN {report.settings.selected_video.views}
    ELSE IF report.video_data = <<>> THEN {0}
    ELSE {report.video_data[i].views : i \in
            {j \in DOMAIN report.video_data :
               \A k \in DOMAIN report.video_data :
                  ToDatetime(report.video_data[k].published_at)
                     <= ToDatetime(report.video_data[j].published_at)}}

\* The view-count line of the new-video section: the sixth line of the text.
ViewsLineAt == 6

\* C9: in the new-video section, with a 24-hour view goal above 0 the view
\* line states the goal, the reported video's views and "achieved" exactly
\* when views >= goal; with a goal of 0 or no goal the line states the views
\* only, and no line carries a view verdict.
C9_ViewsAchievementLine ==
    (ReportIsText /\ report.settings.include_new_video) =>
        LET goal == Get(report.current_goals, "goal_24h_views", 0)
            line == report.lines[ViewsLineAt]
        IN  /\ \E v \in ReportedViews :
                 IF goal > 0
                 THEN line = <<"views_goal_result", goal, v,
                               IF v >= goal THEN "Achieved" ELSE "NotAchieved">>
                 ELSE line = <<"views_result", v>>
            /\ \A i \in DOMAIN report.lines :
                 report.lines[i][1] = "views_goal_result" => (i = ViewsLineAt /\ goal > 0)

\* A report states "achieved" for views equal to the goal.
C9_Witness ==
    /\ ReportIsText
    /\ report.settings.include_new_video
    /\ report.lines[ViewsLineAt] = <<"views_goal_result", 10, 10, "Achieved">>

\* The ranking lines of a report text.
RankLines == SelectSeq(report.lines, LAMBDA l : l[1] = "rank")

\* C10: with the top-videos section on and records in the store, generation
\* succeeds; the ranking has at most 5 entries in descending view order and
\* no record whose views are not a number; with channel statistics on such a
\* record is still counted in the number of videos.
C10_TopVideosSkipNonNumeric ==
    (/\ report # NotRun
     /\ report.kind # "error"
     /\ report.settings.include_top_videos
     /\ ~report.settings.include_new_video
     /\ report.video_data # <<>>) =>
        /\ report.kind = "text"
        /\ Len(RankLines) <= TopN
        /\ Len(RankLines) = LET numeric == Cardinality({i \in DOMAIN report.video_data :
                                                          IsNumeric(report.video_data[i].views)})
                            IN  IF numeric < TopN THEN numeric ELSE TopN
        /\ \A i \in DOMAIN RankLines :
              /\ IsNumeric(RankLines[i][4])
              /\ i > 1 => RankLines[i - 1][4] >= RankLines[i][4]
        /\ report.settings.include_channel_stats =>
              \E i \in DOMAIN report.lines :
                 report.lines[i] = <<"video_count", Len(report.video_data)>>

\* The report text has a line with this wording.
HasLine(text) == \E i \in DOMAIN report.lines : report.lines[i][1] = text

\* C11: every section whose flag is on appears in the report text, also when
\* its data is unavailable (an empty video store): the channel-statistics
\* and top-videos sections are then emitted with a placeholder line.
C11_EnabledSectionsAppear ==
    ReportIsText =>
        /\ report.settings.include_new_video => HasLine("new_video_heading")
        /\ report.settings.include_revenue => HasLine("revenue_heading")
        /\ report.settings.include_channel_stats => HasLine("channel_stats_heading")
        /\ report.settings.include_top_videos => HasLine("top5_heading")

\* The section a line belongs to: 0 the header, 1 the new video, 2 the
\* revenue, 3 the channel statistics, 4 the top videos; -1 for the lines
\* several sections share (blank lines, the analytics placeholder).
SectionOfLine(line) ==
    CASE line[1] = "greeting" -> 0
      [] line[1] \in {"new_video_heading", "published_unknown", "published",
                      "views_heading", "views_goal_result", "views_result",
                      "like_rate_heading", "like_rate_goal_result",
                      "like_rate_enter_from_studio", "impression_ctr_heading",
                      "subscriber_views_heading", "subscribers_24h_heading"} -> 1
      [] line[1] \in {"revenue_heading", "revenue_date", "month_total_with_goal",
                      "month_total"} -> 2
      [] line[1] \in {"channel_stats_heading", "total_views", "total_likes",
                      "video_count"} -> 3
      [] line[1] \in {"top5_heading", "rank"} -> 4
      [] OTHER -> -1

\* C22: the report opens with the header and its sections follow in the
\* order new video, revenue, channel statistics, top videos, whatever flags
\* are on: no line of a later section precedes a line of an earlier one.
C22_SectionsInFixedOrder ==
    ReportIsText =>
        /\ SectionOfLine(report.lines[1]) = 0
        /\ \A i, j \in DOMAIN report.lines :
              (/\ i < j
               /\ SectionOfLine(report.lines[i]) >= 0
               /\ SectionOfLine(report.lines[j]) >= 0)
              => SectionOfLine(report.lines[i]) <= SectionOfLine(report.lines[j])

\* A report with all four sections.
C22_Witness ==
    /\ ReportIsText
    /\ HasLine("new_video_heading")
    /\ HasLine("revenue_heading")
    /\ HasLine("channel_stats_heading")
    /\ HasLine("rank")

\* The lines of the report before its first section.
HeaderLines ==
    SelectSeq([i \in DOMAIN report.lines |-> [at |-> i, line |-> report.lines[i]]],
              LAMBDA x : \A k \in 1..x.at : SectionOfLine(report.lines[k]) <= 0)

\* C23: every generated report starts with header lines, one of which
\* carries today's date.
C23_HeaderCarriesDate ==
    ReportIsText =>
        \E i \in DOMAIN HeaderLines :
            \E k \in 2..Len(HeaderLines[i].line) :
                HeaderLines[i].line[k] = DateOf(report.today)

\* Like-rate goals an operator may want to enter, in tenths of a percent.
LikeRateGoalEntries == {850, 900}

\* C25: the like-rate line is the placeholder when the entered like rate is
\* 0; otherwise its verdict is "achieved" exactly when the entered like rate
\* is at least the like-rate goal the operator entered, whatever that goal.
C25_LikeRateAgainstEnteredGoal ==
    (ReportIsText /\ report.settings.include_new_video) =>
        \A entered_goal \in LikeRateGoalEntries :
            IF report.settings.manual_like_rate = 0
            THEN HasLine("like_rate_enter_from_studio") /\ ~HasLine("like_rate_goal_result")
            ELSE \E i \in DOMAIN report.lines :
                    /\ report.lines[i][1] = "like_rate_goal_result"
                    /\ report.lines[i][4]
                          = Achievement(report.settings.manual_like_rate, entered_goal)

(***************************************************************************)
(* Properties of the store and of the two pages that write it.             *)
(***************************************************************************)
\* C12: a run of the goal-settings tab that follows a run which saved a goal
\* set reads back exactly the saved values; one that follows a run which
\* saved nothing reads back what that run read: an earlier entry never
\* becomes current again.
C12_CurrentGoalIsLastSaved ==
    [][ (goals_page # NotRun /\ goals_page' # NotRun /\ goals_page'.read_ok) =>
          /\ goals_page.success => goals_page'.current_goals = goals_page.submitted
          /\ (~goals_page.success /\ goals_page.read_ok) =>
                goals_page'.current_goals = goals_page.current_goals ]_vars

\* Two goal sets were saved one after the other and the tab then read the
\* second one back.
C12_Witness ==
    /\ goals_page # NotRun
    /\ goals_page.read_ok
    /\ Len(goalsSheet) = 2
    /\ goalsSheet[1].goal_24h_views = FormatInt(5)
    /\ goalsSheet[2].goal_24h_views = FormatInt(12)
    /\ goals_page.submitted = None
    /\ goals_page.current_goals = GoalInput(12, 0)

\* C13: when the save handler has run on n fetched videos, every one of them
\* was attempted, also when the daily save of the same run failed, and the
\* saved count plus the failed count is n.
C13_BatchCountsAddUp ==
    save_result # NotRun =>
        /\ save_result.attempted = save_result.n
        /\ save_result.saved_count + save_result.error_count = save_result.n

\* s is an initial part of t.
IsPrefix(s, t) == Len(s) <= Len(t) /\ SubSeq(t, 1, Len(s)) = s

\* C16: every step leaves the rows already in the three sheets in place and
\* unchanged; a run of the save handler adds one row at the end of the daily
\* sheet when its daily save succeeded and one row at the end of the video
\* sheet per saved video; a successful goal save adds exactly the submitted
\* row at the end of the goals sheet.
C16_AppendOnly ==
    [][ /\ IsPrefix(videos, videos')
        /\ IsPrefix(daily, daily')
        /\ IsPrefix(goalsSheet, goalsSheet')
        /\ save_result' # NotRun =>
              /\ Len(videos') = Len(videos) + save_result'.saved_count
              /\ Len(daily') = Len(daily) + (IF save_result'.daily = "saved" THEN 1 ELSE 0)
        /\ (goals_page' # NotRun /\ goals_page'.success) =>
              /\ Len(goalsSheet') = Len(goalsSheet) + 1
              /\ goalsSheet'[Len(goalsSheet')].goal_24h_views
                    = FormatInt(goals_page'.submitted.goal_24h_views) ]_vars

\* The save handler has just run and the store holds two snapshots of the
\* same date, a saved video and two goal rows.
C16_Witness ==
    /\ save_result # NotRun
    /\ save_result.daily = "saved"
    /\ save_result.saved_count > 0
    /\ Len(daily) = 2
    /\ daily[1].date = daily[2].date
    /\ Len(goalsSheet) = 2

\* C14: report text is produced only when every read succeeded: a goal log
\* that holds goals and could not be read gives an error outcome, not a text
\* composed without goals.
C14_FailedReadGivesError ==
    (report # NotRun /\ goalsSheet # <<>> /\ report.current_goals = <<>>) =>
        report.kind = "error"

\* C15: after a filter call and after a report generation the collection the
\* call worked on has the same records, fields and order as before.
C15_InputNotMutated ==
    /\ FilterRan => FilterInputAfter(videos, filter_settings) = videos
    /\ report # NotRun => report.video_data_after = report.video_data

(***************************************************************************)
(* Further properties of the filter.                                       *)
(***************************************************************************)
\* The column and direction a sort key stands for.
SortColumnOf(sort) ==
    CASE sort \in {"PublishDateDesc", "PublishDateAsc"} -> "published_at"
      [] sort \in {"ViewsDesc", "ViewsAsc"} -> "views"
      [] OTHER -> "likes"

SortAscendingOf(sort) == sort \in {"PublishDateAsc", "ViewsAsc"}

\* C17: the sort step is stable: the filter's output is the period- and
\* search-filtered rows in key order with rows of equal key in the order
\* they had before sorting.
C17_SortIsStable ==
    (FilterRan /\ videos # <<>>) =>
        filtered = SortRows(SearchFilter(PeriodFilter(videos, filter_settings), filter_settings),
                            SortColumnOf(filter_settings.sort),
                            SortAscendingOf(filter_settings.sort), "kept")

\* C18: with a LastN period the filter keeps exactly the rows published at or
\* after now - N days, now being the current instant in the time reference
\* of the stored (UTC) publish timestamps.
C18_LastNDaysWindow ==
    (/\ FilterRan
     /\ filter_settings.period \in {"Last7Days", "Last30Days", "Last90Days"}
     /\ SearchIsNoOp) =>
        Rows(filtered) = {r \in Rows(videos) :
                            ToDatetime(r.published_at)
                               >= now - PeriodDays(filter_settings.period) * Day}

(***************************************************************************)
(* _apply_filters as a function of the frame and of whatever settings the  *)
(* session holds, including settings the filter widgets do not produce.    *)
(***************************************************************************)
\* A row whose title cell holds a number; title is the text astype(str)
\* gives for it.
NumberTitled(row) == row @@ [title_is_number |-> TRUE]

TitleIsString(row) == "title_is_number" \notin DOMAIN row

ApplyCatalog ==
    { NumberTitled(Video("a1", FormatInt(12), 11, 0, 5, 1)),
      Video("a2", <<"a", "1">>, 10, 0, 3, 0) }

\* Settings found in st.session_state.filter_settings.
ApplySettings ==
    { [period |-> "All", search |-> q, sort |-> "PublishDateDesc"] :
        q \in {<<>>, <<"1">>, <<"a">>, <<"x">>} }
    \cup { [period |-> "Custom", search |-> <<>>, sort |-> k] : k \in SortKeys }
    \cup { [period |-> "Custom", search |-> <<>>, sort |-> "ViewsAsc", start_date |-> 11] }
    \cup { [period |-> "Custom", search |-> <<>>, sort |-> "ViewsAsc", end_date |-> 10] }
    \cup { [period |-> "Custom", search |-> <<>>, sort |-> "ViewsAsc",
            start_date |-> 11, end_date |-> 11] }

\* One call of _apply_filters with the session's settings.
ApplyFiltersCall(settings) ==
    /\ filter_settings' = settings
    /\ filtered' = ApplyFilters(videos, settings)
    /\ UNCHANGED <<videos, goalsSheet, daily, now, tzOffset, tieOrder, display_data,
                   suggestion, report, pageVars>>

InitApply ==
    /\ videos \in SeqsUpTo(ApplyCatalog, MaxVideos)
    /\ daily = <<>>
    /\ goalsSheet = <<>>
    /\ now = Now0
    /\ tzOffset \in TzOffsets
    /\ tieOrder \in {"kept", "reversed"}
    /\ filter_settings = None
    /\ filtered = <<>>
    /\ display_data = <<>>
    /\ suggestion = NotRun
    /\ report = NotRun
    /\ PagesIdle

NextApply == \E settings \in ApplySettings : ApplyFiltersCall(settings)

SpecApply == InitApply /\ [][NextApply]_vars

\* C19: with a search text that is not empty after stripping, no row whose
\* title is not a string is kept.
C19_NonStringTitleNeverKept ==
    (FilterRan /\ Strip(filter_settings.search) # <<>>) =>
        \A i \in DOMAIN filtered : TitleIsString(filtered[i])

MaxTrendRows == 6

TrendViews == {0, 2, 3}

TrendIds == <<"t1", "t2", "t3", "t4", "t5", "t6", "t7", "t8">>

\* The sheet holding the views in view_counts, row i published on day 80 + i
\* (oldest_first) or on day 99 - i.
TrendSheet(view_counts, oldest_first, with_old) ==
    [i \in DOMAIN view_counts |->
        Video(TrendIds[i], <<"a">>, IF oldest_first THEN 80 + i ELSE 99 - i, 0,
              view_counts[i], 0)]
    \o (IF with_old THEN <<Video("t0", <<"a">>, 10, 0, 3, 0)>> ELSE <<>>)

InitTrend ==
    /\ \E n \in 4..MaxTrendRows, oldest_first \in BOOLEAN, with_old \in BOOLEAN :
          \E view_counts \in [1..n -> TrendViews] :
             videos = TrendSheet(view_counts, oldest_first, with_old)
    /\ daily = <<>>
    /\ goalsSheet = <<>>
    /\ now = Now0
    /\ tzOffset \in TzOffsets
    /\ tieOrder = "kept"
    /\ filter_settings = None
    /\ filtered = <<>>
    /\ display_data = <<>>
    /\ suggestion = NotRun
    /\ report = NotRun
    /\ PagesIdle

NextTrend == ShowAiSuggestions

SpecTrend == InitTrend /\ [][NextTrend]_vars

\* The rows of the window with fewer than k rows published after them, and
\* with fewer than k rows published before them.
LatestOf(rows, k) ==
    SelectSeq(rows, LAMBDA r :
        Cardinality({j \in DOMAIN rows :
            ToDatetime(rows[j].published_at) > ToDatetime(r.published_at)}) < k)

EarliestOf(rows, k) ==
    SelectSeq(rows, LAMBDA r :
        Cardinality({j \in DOMAIN rows :
            ToDatetime(rows[j].published_at) < ToDatetime(r.published_at)}) < k)

SuggestionMade == suggestion # NotRun /\ suggestion # None

\* C21: with at least 5 records in the window the trend is rising when the
\* mean views of the 5 latest exceed 1.1 times the mean views of the 5
\* earliest, falling when they are below 0.9 times that mean, and stable
\* otherwise; with fewer than 5 records it is the insufficient-data outcome.
C21_TrendThresholds ==
    SuggestionMade =>
        LET recent == SumViews(LatestOf(TrailingWindow, 5))
            earlier == SumViews(EarliestOf(TrailingWindow, 5))
            expected == IF Len(TrailingWindow) < 5 THEN "few"
                        ELSE IF 10 * recent > 11 * earlier THEN "rising"
                        ELSE IF 10 * recent < 9 * earlier THEN "falling"
                        ELSE "stable"
        IN  /\ suggestion.analysis_24h = expected
            /\ suggestion.analysis_daily = expected

\* Six records whose latest five have exactly 1.1 times the views of the
\* earliest five: the trend is stable.
C21_Witness ==
    /\ SuggestionMade
    /\ Len(TrailingWindow) = 6
    /\ 10 * SumViews(LatestOf(TrailingWindow, 5)) = 11 * SumViews(EarliestOf(TrailingWindow, 5))
    /\ SumViews(TrailingWindow) > 0
    /\ suggestion.analysis_24h = "stable"

\* C28: with exactly 5 records in the window the trend is stable whatever
\* the views; rising and falling occur only with 6 or more records.
C28_FiveRecordsAlwaysStable ==
    SuggestionMade =>
        /\ Len(TrailingWindow) = 5 => suggestion.analysis_24h = "stable"
        /\ suggestion.analysis_24h \in {"rising", "falling"} => Len(TrailingWindow) >= 6

\* Five records in the window, the latest with more views than the earliest,
\* and a stable trend.
C28_Witness ==
    /\ SuggestionMade
    /\ Len(TrailingWindow) = 5
    /\ \E i, j \in DOMAIN TrailingWindow :
          /\ ToDatetime(TrailingWindow[i].published_at) > ToDatetime(TrailingWindow[j].published_at)
          /\ TrailingWindow[i].views = 3
          /\ TrailingWindow[j].views = 0
    /\ suggestion.analysis_24h = "stable"

(***************************************************************************)
(* The report page over stores whose records all have numeric views, two   *)
(* of them published at the same time and one later.                       *)
(***************************************************************************)
PickCatalog ==
    { Video("p1", <<"a">>, 93, 15 * Hour, 10, 1),
      Video("p2", <<"b">>, 95, 16 * Hour, 3, 0),
      Video("p3", <<"a", "b">>, 93, 15 * Hour, 7, 2) }

InitPick ==
    /\ videos \in SeqsUpTo(PickCatalog, MaxVideos)
    /\ daily = <<>>
    /\ goalsSheet = <<Goal(10, 7)>>
    /\ now = Now0
    /\ tzOffset = 0
    /\ tieOrder \in {"kept", "reversed"}
    /\ filter_settings = None
    /\ filtered = <<>>
    /\ display_data = <<>>
    /\ suggestion = NotRun
    /\ report = NotRun
    /\ PagesIdle

NextPick ==
    \/ PressGenerate
    \/ ChangeWidget

SpecPick == InitPick /\ [][NextPick]_vars

\* The records the new-video section may report: the selected one, else a
\* record no other record was published after, else none.
ReportedCandidates ==
    IF report.settings.selected_video # None THEN {report.settings.selected_video}
    ELSE IF report.video_data = <<>> THEN {None}
    ELSE {report.video_data[j] : j \in
            {i \in DOMAIN report.video_data :
               \A k \in DOMAIN report.video_data :
                  ToDatetime(report.video_data[k].published_at)
                     <= ToDatetime(report.video_data[i].published_at)}}

\* The publish-date line and the view-count line of the new-video section.
PubDateLineAt == 4

ViewsOnLine(line) == IF line[1] = "views_goal_result" THEN line[3] ELSE line[2]

\* C24: the new-video section reports the selected video whenever the
\* settings carry one; with none selected it reports the record with the
\* latest publish time of the store (no publish date and 0 views for an
\* empty store).
C24_SelectedElseLatest ==
    (ReportIsText /\ report.settings.include_new_video) =>
        \E video \in ReportedCandidates :
            /\ report.lines[PubDateLineAt] = PubDateLine(video)
            /\ ViewsOnLine(report.lines[ViewsLineAt])
                  = (IF video = None THEN 0 ELSE video.views)

\* No selection, and the store's latest record is its second row.
C24_Witness ==
    /\ ReportIsText
    /\ report.settings.include_new_video
    /\ report.settings.selected_video = None
    /\ Len(report.video_data) = 2
    /\ ToDatetime(report.video_data[1].published_at)
          < ToDatetime(report.video_data[2].published_at)
    /\ ViewsOnLine(report.lines[ViewsLineAt]) = report.video_data[2].views

(***************************************************************************)
(* Further properties of the data page, checked under SpecStore.           *)
(***************************************************************************)
\* C26: whatever was fetched and saved, and how often, the dashboard's
\* filtered records never hold two records with the same video id.
C26_FilteredIdsDistinct ==
    LET shown == ApplyFilters(videos, DefaultSettings)
    IN  \A i, j \in DOMAIN shown : i # j => shown[i].video_id # shown[j].video_id

\* C27: a daily row saved after a successful statistics fetch carries the
\* subscriber count and the total view count that were fetched.
C27_SnapshotCarriesFetchedCounts ==
    (save_result # NotRun /\ save_result.daily = "saved") =>
        LET row == daily[Len(daily)]
        IN  /\ channel_stats.subscriber_count \in {row.subscribers_gained, row.views}
            /\ channel_stats.total_views \in {row.subscribers_gained, row.views}

\* The video ids of a list of fetched videos or of sheet rows.
IdsOf(list) == {list[i].video_id : i \in DOMAIN list}

\* C29: the save handler runs, and a row is added to the daily or the video
\* sheet, only while the session holds fetched channel statistics or a
\* fetched, non-empty video list.
C29_SaveOnlyAfterFetch ==
    [][ (save_result' # NotRun \/ daily' # daily \/ videos' # videos)
          => (channel_stats # None \/ session_recent_videos # <<>>) ]_vars

\* A save that ran with fetched videos only and added a video row.
C29_Witness ==
    /\ save_result # NotRun
    /\ save_result.saved_count > 0
    /\ save_result.daily = "none"
    /\ channel_stats = None
    /\ videos # <<>>

\* C30: a fetch that fails leaves the session's channel statistics and
\* video list as they were, and a save adds rows of the session's video
\* list only.
C30_FailedFetchKeepsSession ==
    [][ /\ (fetch_result' # NotRun /\ ~fetch_result'.ok) =>
              /\ channel_stats' = channel_stats
              /\ session_recent_videos' = session_recent_videos
        /\ save_result' # NotRun =>
              IdsOf(SubSeq(videos', Len(videos) + 1, Len(videos'))) \subseteq
                 IdsOf(session_recent_videos) ]_vars

\* A video fetch has just failed while the session holds the statistics and
\* a video list of earlier fetches.
C30_Witness ==
    /\ fetch_result # NotRun
    /\ fetch_result.button = "videos"
    /\ ~fetch_result.ok
    /\ channel_stats # None
    /\ session_recent_videos # <<>>

====
